---- MODULE Spec2Model ----
(***************************************************************************)
(* State-machine model of the SalaryCompare contract                       *)
(* (src/unnamed/part_000): encrypted salaries per account, ordered-pair    *)
(* comparison results, and the access-control list of the FHE engine; and  *)
(* of two pieces of the React front end: the salary form of                *)
(* SalaryCompareDemo (src/unnamed/part_001) and the statistics loader of   *)
(* SalaryDashboard (src/frontend/components/SalaryDashboard.tsx).          *)
(*                                                                         *)
(* Every external function is one action.  A failing require() reverts the *)
(* whole transaction: storage, ACL grants and emitted events of the call   *)
(* are discarded.  block.timestamp, the third field of every event, is     *)
(* supplied by the environment and is left out of the event records.       *)
(***************************************************************************)
EXTENDS Integers, Sequences, FiniteSets, TLC

(***************************************************************************)
(* Bounds of the model                                                     *)
(***************************************************************************)
\* longest in-range otherUsers array tried by batchCompareSalaries in Spec
MaxBatchLen == 2
\* number of transactions (successful or reverted) in a behaviour of Spec
MaxCalls == 5
\* the same two bounds for the four-account specification Spec4
MaxBatchLen4 == 3
MaxCalls4 == 4
\* number of transactions in a behaviour of the twelve-account Spec12
MaxCalls12 == 13
\* salary form: invocations of handleSalarySubmit from the page (clicks or
\* Enter), and submitSalary calls followed within one such invocation chain
MaxRuns == 2
MaxSubmitCalls == 5
\* dashboard: runs of the loadStats effect (the one at mount included)
MaxLoads == 3

(***************************************************************************)
(* Accounts                                                                *)
(***************************************************************************)
Users == {"a", "b", "c"}
Users4 == Users \cup {"d"}
\* address(this): the contract itself as grantee of FHE.allowThis
This == "this"
\* placeholder for "no account" in records
NoUser == "-"
\* the encrypted inputs an account can submit: two distinct ciphertexts,
\* named by the salary they encrypt
SalaryInputs == {1, 2}

\* uint256 private constant MAX_BATCH_SIZE = 10;
MAX_BATCH_SIZE == 10

(***************************************************************************)
(* Revert reasons (the require messages of the contract)                   *)
(***************************************************************************)
NoError == ""
ErrInvalidProof == "FHE.fromExternal: invalid input proof"
ErrSelf == "Cannot compare salary with yourself"
ErrNoSalary == "You have not submitted a salary yet"
ErrOtherNoSalary == "The other user has not submitted a salary yet"
ErrAlready == "Comparison already performed between these users"
ErrUpdateFirst == "You must submit a salary first before updating it"
ErrBatchEmpty == "Must provide at least one user to compare with"
ErrBatchTooMany == "Cannot compare with more than 10 users at once"
ErrBatchOtherNoSalary == "One of the other users has not submitted a salary yet"
ErrBatchSelf == "Cannot compare with yourself"
ErrBatchDuplicate == "Duplicate addresses not allowed in batch comparison"
ErrNotParticipant == "You can only view comparisons you are part of"
ErrNotPerformed == "Comparison has not been performed yet"

(***************************************************************************)
(* Ciphertext handles.  A handle is opaque to the contract; the model      *)
(* keeps what the engine derives it from: an input handle from the account *)
(* and ciphertext it was proven for, a comparison handle from its two      *)
(* operand handles in order.                                               *)
(***************************************************************************)
\* the default value of an unset euint32 / ebool mapping slot
ZeroHandle == [kind |-> "zero", lo |-> NoUser, lv |-> 0, ro |-> NoUser, rv |-> 0]

\* FHE.fromExternal(inputEuint32, inputProof) for a valid proof
FHE_fromExternal(sender, val) ==
    [kind |-> "euint32", lo |-> sender, lv |-> val, ro |-> NoUser, rv |-> 0]

\* FHE.gt(lhs, rhs): encrypted "lhs > rhs"
FHE_gt(lhs, rhs) ==
    [kind |-> "ebool", lo |-> lhs.lo, lv |-> lhs.lv, ro |-> rhs.lo, rv |-> rhs.lv]

\* the cleartext of a salary handle, and of a comparison handle: FHE.gt is
\* the strict "greater than" of its operands' cleartexts
Cleartext(handle) == handle.lv
FHE_decrypt(isGreater) == isGreater.lv > isGreater.rv

\* FHE.allow(handle, account) / FHE.allowThis(handle): the ACL is a set
FHE_allow(acl, handle, account) == acl \cup {<<handle, account>>}

(***************************************************************************)
(* Events                                                                  *)
(***************************************************************************)
SalarySubmitted(user) == [name |-> "SalarySubmitted", user1 |-> user, user2 |-> NoUser]
SalaryUpdated(user) == [name |-> "SalaryUpdated", user1 |-> user, user2 |-> NoUser]
SalaryCompared(user1, user2) == [name |-> "SalaryCompared", user1 |-> user1, user2 |-> user2]

(***************************************************************************)
(* State                                                                   *)
(***************************************************************************)
VARIABLES
    salaries,            \* mapping(address => euint32)
    hasSalary,           \* mapping(address => bool)
    comparisonResults,   \* mapping(address => mapping(address => ebool))
    comparisonPerformed, \* mapping(address => mapping(address => bool))
    acl,                 \* grants of the FHE engine: set of <<handle, account>>
    comparedLog,         \* SalaryCompared events of committed calls, per pair
    calls,               \* number of transactions sent so far
    lastCall,            \* the last transaction: function, arguments, outcome
    ui,                  \* SalaryCompareDemo: state of the salary form
    dash                 \* SalaryDashboard: props, state and loads in flight

vars == <<salaries, hasSalary, comparisonResults, comparisonPerformed, acl,
          comparedLog, calls, lastCall, ui, dash>>

\* the variables of the contract and of its callers
ContractVars ==
    <<salaries, hasSalary, comparisonResults, comparisonPerformed, acl,
      comparedLog, calls, lastCall>>

\* the contract storage and ACL as one value; logs are the events of the
\* transaction being executed
Cur ==
    [salaries |-> salaries, hasSalary |-> hasSalary,
     comparisonResults |-> comparisonResults,
     comparisonPerformed |-> comparisonPerformed,
     acl |-> acl, logs |-> <<>>]

Ok(st) == [st |-> st, error |-> NoError]
Fail(st, msg) == [st |-> st, error |-> msg]

(***************************************************************************)
(* submitSalary                                                            *)
(***************************************************************************)
\* variant: a salary already stored is kept
submitSalaryKeepsFirst(st, sender, val, proofOk) ==
    IF ~proofOk THEN Fail(st, ErrInvalidProof)
    ELSE
      LET encryptedSalary == FHE_fromExternal(sender, val)
          acl1 == FHE_allow(st.acl, encryptedSalary, This)
          acl2 == FHE_allow(acl1, encryptedSalary, sender)
      IN  Ok([st EXCEPT !.salaries[sender] =
                            IF st.hasSalary[sender] THEN @ ELSE encryptedSalary,
                        !.hasSalary[sender] = TRUE,
                        !.acl = acl2,
                        !.logs = Append(@, SalarySubmitted(sender))])

\* variant: the contract is not granted access to the new handle
submitSalaryNoAllowThis(st, sender, val, proofOk) ==
    IF ~proofOk THEN Fail(st, ErrInvalidProof)
    ELSE
      LET encryptedSalary == FHE_fromExternal(sender, val)
          acl2 == FHE_allow(st.acl, encryptedSalary, sender)
      IN  Ok([st EXCEPT !.salaries[sender] = encryptedSalary,
                        !.hasSalary[sender] = TRUE,
                        !.acl = acl2,
                        !.logs = Append(@, SalarySubmitted(sender))])

\* variant: granting a pair that is already granted is an error
submitSalaryRejectsRegrant(st, sender, val, proofOk) ==
    IF ~proofOk THEN Fail(st, ErrInvalidProof)
    ELSE
      LET encryptedSalary == FHE_fromExternal(sender, val)
          acl1 == FHE_allow(st.acl, encryptedSalary, This)
          acl2 == FHE_allow(acl1, encryptedSalary, sender)
      IN  IF <<encryptedSalary, sender>> \in st.acl THEN Fail(st, ErrInvalidProof)
          ELSE Ok([st EXCEPT !.salaries[sender] = encryptedSalary,
                             !.hasSalary[sender] = TRUE,
                             !.acl = acl2,
                             !.logs = Append(@, SalarySubmitted(sender))])

\* variant: a new submission discards the comparisons the sender requested
submitSalaryResetsRecords(st, sender, val, proofOk) ==
    IF ~proofOk THEN Fail(st, ErrInvalidProof)
    ELSE
      LET encryptedSalary == FHE_fromExternal(sender, val)
          acl1 == FHE_allow(st.acl, encryptedSalary, This)
          acl2 == FHE_allow(acl1, encryptedSalary, sender)
      IN  Ok([st EXCEPT !.salaries[sender] = encryptedSalary,
                        !.hasSalary[sender] = TRUE,
                        !.comparisonResults[sender] =
                            [v \in DOMAIN @ |-> ZeroHandle],
                        !.comparisonPerformed[sender] =
                            [v \in DOMAIN @ |-> FALSE],
                        !.acl = acl2,
                        !.logs = Append(@, SalarySubmitted(sender))])

submitSalary(st, sender, val, proofOk) ==
    IF ~proofOk THEN Fail(st, ErrInvalidProof)
    ELSE
      LET encryptedSalary == FHE_fromExternal(sender, val)
          acl1 == FHE_allow(st.acl, encryptedSalary, This)
          acl2 == FHE_allow(acl1, encryptedSalary, sender)
      IN  Ok([st EXCEPT !.salaries[sender] = encryptedSalary,
                        !.hasSalary[sender] = TRUE,
                        !.acl = acl2,
                        !.logs = Append(@, SalarySubmitted(sender))])

(***************************************************************************)
(* updateSalary                                                            *)
(***************************************************************************)
\* variant: an update invalidates the comparisons the sender requested
updateSalaryInvalidates(st, sender, val, proofOk) ==
    IF ~st.hasSalary[sender] THEN Fail(st, ErrUpdateFirst)
    ELSE IF ~proofOk THEN Fail(st, ErrInvalidProof)
    ELSE
      LET encryptedSalary == FHE_fromExternal(sender, val)
          acl1 == FHE_allow(st.acl, encryptedSalary, This)
          acl2 == FHE_allow(acl1, encryptedSalary, sender)
      IN  Ok([st EXCEPT !.salaries[sender] = encryptedSalary,
                        !.hasSalary[sender] = TRUE,
                        !.comparisonPerformed[sender] =
                            [v \in DOMAIN @ |-> FALSE],
                        !.acl = acl2,
                        !.logs = Append(@, SalaryUpdated(sender))])

\* variant: the presence flag is written as false
updateSalaryClearsFlag(st, sender, val, proofOk) ==
    IF ~st.hasSalary[sender] THEN Fail(st, ErrUpdateFirst)
    ELSE IF ~proofOk THEN Fail(st, ErrInvalidProof)
    ELSE
      LET encryptedSalary == FHE_fromExternal(sender, val)
          acl1 == FHE_allow(st.acl, encryptedSalary, This)
          acl2 == FHE_allow(acl1, encryptedSalary, sender)
      IN  Ok([st EXCEPT !.salaries[sender] = encryptedSalary,
                        !.hasSalary[sender] = FALSE,
                        !.acl = acl2,
                        !.logs = Append(@, SalaryUpdated(sender))])

\* variant: no check that the sender has submitted before
updateSalaryNoPrecondition(st, sender, val, proofOk) ==
    IF ~proofOk THEN Fail(st, ErrInvalidProof)
    ELSE
      LET encryptedSalary == FHE_fromExternal(sender, val)
          acl1 == FHE_allow(st.acl, encryptedSalary, This)
          acl2 == FHE_allow(acl1, encryptedSalary, sender)
      IN  Ok([st EXCEPT !.salaries[sender] = encryptedSalary,
                        !.hasSalary[sender] = TRUE,
                        !.acl = acl2,
                        !.logs = Append(@, SalaryUpdated(sender))])

\* variant: the grants on the replaced handle are revoked
updateSalaryRevokesOld(st, sender, val, proofOk) ==
    IF ~st.hasSalary[sender] THEN Fail(st, ErrUpdateFirst)
    ELSE IF ~proofOk THEN Fail(st, ErrInvalidProof)
    ELSE
      LET encryptedSalary == FHE_fromExternal(sender, val)
          acl0 == st.acl \ {<<st.salaries[sender], This>>,
                            <<st.salaries[sender], sender>>}
          acl1 == FHE_allow(acl0, encryptedSalary, This)
          acl2 == FHE_allow(acl1, encryptedSalary, sender)
      IN  Ok([st EXCEPT !.salaries[sender] = encryptedSalary,
                        !.hasSalary[sender] = TRUE,
                        !.acl = acl2,
                        !.logs = Append(@, SalaryUpdated(sender))])

\* variant: the input proof is validated before the presence check
updateSalaryProofFirst(st, sender, val, proofOk) ==
    IF ~proofOk THEN Fail(st, ErrInvalidProof)
    ELSE IF ~st.hasSalary[sender] THEN Fail(st, ErrUpdateFirst)
    ELSE
      LET encryptedSalary == FHE_fromExternal(sender, val)
          acl1 == FHE_allow(st.acl, encryptedSalary, This)
          acl2 == FHE_allow(acl1, encryptedSalary, sender)
      IN  Ok([st EXCEPT !.salaries[sender] = encryptedSalary,
                        !.hasSalary[sender] = TRUE,
                        !.acl = acl2,
                        !.logs = Append(@, SalaryUpdated(sender))])

updateSalary(st, sender, val, proofOk) ==
    IF ~st.hasSalary[sender] THEN Fail(st, ErrUpdateFirst)
    ELSE IF ~proofOk THEN Fail(st, ErrInvalidProof)
    ELSE
      LET encryptedSalary == FHE_fromExternal(sender, val)
          acl1 == FHE_allow(st.acl, encryptedSalary, This)
          acl2 == FHE_allow(acl1, encryptedSalary, sender)
      IN  Ok([st EXCEPT !.salaries[sender] = encryptedSalary,
                        !.hasSalary[sender] = TRUE,
                        !.acl = acl2,
                        !.logs = Append(@, SalaryUpdated(sender))])

(***************************************************************************)
(* The comparison step shared by compareSalaries (lines 83-95) and the     *)
(* loop body of batchCompareSalaries (lines 163-175)                       *)
(***************************************************************************)
\* variant: the result is stored for both directions of the pair
StoreComparisonSymmetric(st, sender, otherUser) ==
    LET isGreater == FHE_gt(st.salaries[sender], st.salaries[otherUser])
        acl1 == FHE_allow(st.acl, isGreater, This)
        acl2 == FHE_allow(acl1, isGreater, sender)
        acl3 == FHE_allow(acl2, isGreater, otherUser)
    IN  [st EXCEPT !.comparisonResults[sender][otherUser] = isGreater,
                   !.comparisonPerformed[sender][otherUser] = TRUE,
                   !.comparisonResults[otherUser][sender] = isGreater,
                   !.comparisonPerformed[otherUser][sender] = TRUE,
                   !.acl = acl3,
                   !.logs = Append(@, SalaryCompared(sender, otherUser))]

\* variant: the sender is also granted the other user's salary handle
StoreComparisonGrantsOperand(st, sender, otherUser) ==
    LET isGreater == FHE_gt(st.salaries[sender], st.salaries[otherUser])
        acl1 == FHE_allow(st.acl, isGreater, This)
        acl2 == FHE_allow(acl1, isGreater, sender)
        acl3 == FHE_allow(acl2, isGreater, otherUser)
        acl4 == FHE_allow(acl3, st.salaries[otherUser], sender)
    IN  [st EXCEPT !.comparisonResults[sender][otherUser] = isGreater,
                   !.comparisonPerformed[sender][otherUser] = TRUE,
                   !.acl = acl4,
                   !.logs = Append(@, SalaryCompared(sender, otherUser))]

\* variant: the operands of the comparison are swapped
StoreComparisonReversed(st, sender, otherUser) ==
    LET isGreater == FHE_gt(st.salaries[otherUser], st.salaries[sender])
        acl1 == FHE_allow(st.acl, isGreater, This)
        acl2 == FHE_allow(acl1, isGreater, sender)
        acl3 == FHE_allow(acl2, isGreater, otherUser)
    IN  [st EXCEPT !.comparisonResults[sender][otherUser] = isGreater,
                   !.comparisonPerformed[sender][otherUser] = TRUE,
                   !.acl = acl3,
                   !.logs = Append(@, SalaryCompared(sender, otherUser))]

\* variant: the comparison is stored without the SalaryCompared event
StoreComparisonNoEvent(st, sender, otherUser) ==
    LET isGreater == FHE_gt(st.salaries[sender], st.salaries[otherUser])
        acl1 == FHE_allow(st.acl, isGreater, This)
        acl2 == FHE_allow(acl1, isGreater, sender)
        acl3 == FHE_allow(acl2, isGreater, otherUser)
    IN  [st EXCEPT !.comparisonResults[sender][otherUser] = isGreater,
                   !.comparisonPerformed[sender][otherUser] = TRUE,
                   !.acl = acl3]

StoreComparison(st, sender, otherUser) ==
    LET isGreater == FHE_gt(st.salaries[sender], st.salaries[otherUser])
        acl1 == FHE_allow(st.acl, isGreater, This)
        acl2 == FHE_allow(acl1, isGreater, sender)
        acl3 == FHE_allow(acl2, isGreater, otherUser)
    IN  [st EXCEPT !.comparisonResults[sender][otherUser] = isGreater,
                   !.comparisonPerformed[sender][otherUser] = TRUE,
                   !.acl = acl3,
                   !.logs = Append(@, SalaryCompared(sender, otherUser))]

(***************************************************************************)
(* compareSalaries                                                         *)
(***************************************************************************)
\* variant: no check that the comparison was already performed
compareSalariesRecomputes(st, sender, otherUser) ==
    IF sender = otherUser THEN Fail(st, ErrSelf)
    ELSE IF ~st.hasSalary[sender] THEN Fail(st, ErrNoSalary)
    ELSE IF ~st.hasSalary[otherUser] THEN Fail(st, ErrOtherNoSalary)
    ELSE Ok(StoreComparison(st, sender, otherUser))

\* variant: the self-comparison check comes after the presence checks
compareSalariesSelfLast(st, sender, otherUser) ==
    IF ~st.hasSalary[sender] THEN Fail(st, ErrNoSalary)
    ELSE IF ~st.hasSalary[otherUser] THEN Fail(st, ErrOtherNoSalary)
    ELSE IF sender = otherUser THEN Fail(st, ErrSelf)
    ELSE IF st.comparisonPerformed[sender][otherUser] THEN Fail(st, ErrAlready)
    ELSE Ok(StoreComparison(st, sender, otherUser))

\* variant: the other user's presence is checked before the sender's
compareSalariesOtherFirst(st, sender, otherUser) ==
    IF sender = otherUser THEN Fail(st, ErrSelf)
    ELSE IF ~st.hasSalary[otherUser] THEN Fail(st, ErrOtherNoSalary)
    ELSE IF ~st.hasSalary[sender] THEN Fail(st, ErrNoSalary)
    ELSE IF st.comparisonPerformed[sender][otherUser] THEN Fail(st, ErrAlready)
    ELSE Ok(StoreComparison(st, sender, otherUser))

\* variant: no self-comparison check
compareSalariesNoSelfCheck(st, sender, otherUser) ==
    IF ~st.hasSalary[sender] THEN Fail(st, ErrNoSalary)
    ELSE IF ~st.hasSalary[otherUser] THEN Fail(st, ErrOtherNoSalary)
    ELSE IF st.comparisonPerformed[sender][otherUser] THEN Fail(st, ErrAlready)
    ELSE Ok(StoreComparison(st, sender, otherUser))

compareSalaries(st, sender, otherUser) ==
    IF sender = otherUser THEN Fail(st, ErrSelf)
    ELSE IF ~st.hasSalary[sender] THEN Fail(st, ErrNoSalary)
    ELSE IF ~st.hasSalary[otherUser] THEN Fail(st, ErrOtherNoSalary)
    ELSE IF st.comparisonPerformed[sender][otherUser] THEN Fail(st, ErrAlready)
    ELSE Ok(StoreComparison(st, sender, otherUser))

(***************************************************************************)
(* batchCompareSalaries: the for loop from index i (1-based) to the end    *)
(***************************************************************************)
RECURSIVE BatchLoop(_, _, _, _)
BatchLoop(st, sender, otherUsers, i) ==
    IF i > Len(otherUsers) THEN Ok(st)
    ELSE
      LET otherUser == otherUsers[i] IN
      IF ~st.hasSalary[otherUser] THEN Fail(st, ErrBatchOtherNoSalary)
      ELSE IF sender = otherUser THEN Fail(st, ErrBatchSelf)
      ELSE IF st.comparisonPerformed[sender][otherUser]
           THEN BatchLoop(st, sender, otherUsers, i + 1)
      ELSE IF \E j \in 1..(i - 1) : otherUsers[j] = otherUser
           THEN Fail(st, ErrBatchDuplicate)
      ELSE BatchLoop(StoreComparison(st, sender, otherUser), sender, otherUsers, i + 1)

\* variant: an already performed pair fails the batch, as in compareSalaries
RECURSIVE BatchLoopHardFail(_, _, _, _)
BatchLoopHardFail(st, sender, otherUsers, i) ==
    IF i > Len(otherUsers) THEN Ok(st)
    ELSE
      LET otherUser == otherUsers[i] IN
      IF ~st.hasSalary[otherUser] THEN Fail(st, ErrBatchOtherNoSalary)
      ELSE IF sender = otherUser THEN Fail(st, ErrBatchSelf)
      ELSE IF st.comparisonPerformed[sender][otherUser] THEN Fail(st, ErrAlready)
      ELSE BatchLoopHardFail(StoreComparison(st, sender, otherUser), sender, otherUsers, i + 1)

batchCompareSalariesHardFail(st, sender, otherUsers) ==
    IF ~st.hasSalary[sender] THEN Fail(st, ErrNoSalary)
    ELSE IF ~(Len(otherUsers) > 0) THEN Fail(st, ErrBatchEmpty)
    ELSE IF ~(Len(otherUsers) <= MAX_BATCH_SIZE) THEN Fail(st, ErrBatchTooMany)
    ELSE BatchLoopHardFail(st, sender, otherUsers, 1)

\* variant: an entry equal to the sender is skipped
RECURSIVE BatchLoopSkipsSelf(_, _, _, _)
BatchLoopSkipsSelf(st, sender, otherUsers, i) ==
    IF i > Len(otherUsers) THEN Ok(st)
    ELSE
      LET otherUser == otherUsers[i] IN
      IF ~st.hasSalary[otherUser] THEN Fail(st, ErrBatchOtherNoSalary)
      ELSE IF sender = otherUser \/ st.comparisonPerformed[sender][otherUser]
           THEN BatchLoopSkipsSelf(st, sender, otherUsers, i + 1)
      ELSE IF \E j \in 1..(i - 1) : otherUsers[j] = otherUser
           THEN Fail(st, ErrBatchDuplicate)
      ELSE BatchLoopSkipsSelf(StoreComparison(st, sender, otherUser), sender, otherUsers, i + 1)

batchCompareSalariesSkipsSelf(st, sender, otherUsers) ==
    IF ~st.hasSalary[sender] THEN Fail(st, ErrNoSalary)
    ELSE IF ~(Len(otherUsers) > 0) THEN Fail(st, ErrBatchEmpty)
    ELSE IF ~(Len(otherUsers) <= MAX_BATCH_SIZE) THEN Fail(st, ErrBatchTooMany)
    ELSE BatchLoopSkipsSelf(st, sender, otherUsers, 1)

\* variant: the batch does not grant the result to the other user
RECURSIVE BatchLoopNoTargetGrant(_, _, _, _)
BatchLoopNoTargetGrant(st, sender, otherUsers, i) ==
    IF i > Len(otherUsers) THEN Ok(st)
    ELSE
      LET otherUser == otherUsers[i] IN
      IF ~st.hasSalary[otherUser] THEN Fail(st, ErrBatchOtherNoSalary)
      ELSE IF sender = otherUser THEN Fail(st, ErrBatchSelf)
      ELSE IF st.comparisonPerformed[sender][otherUser]
           THEN BatchLoopNoTargetGrant(st, sender, otherUsers, i + 1)
      ELSE IF \E j \in 1..(i - 1) : otherUsers[j] = otherUser
           THEN Fail(st, ErrBatchDuplicate)
      ELSE
        LET isGreater == FHE_gt(st.salaries[sender], st.salaries[otherUser])
            acl1 == FHE_allow(st.acl, isGreater, This)
            acl2 == FHE_allow(acl1, isGreater, sender)
        IN  BatchLoopNoTargetGrant(
                [st EXCEPT !.comparisonResults[sender][otherUser] = isGreater,
                           !.comparisonPerformed[sender][otherUser] = TRUE,
                           !.acl = acl2,
                           !.logs = Append(@, SalaryCompared(sender, otherUser))],
                sender, otherUsers, i + 1)

batchCompareSalariesNoTargetGrant(st, sender, otherUsers) ==
    IF ~st.hasSalary[sender] THEN Fail(st, ErrNoSalary)
    ELSE IF ~(Len(otherUsers) > 0) THEN Fail(st, ErrBatchEmpty)
    ELSE IF ~(Len(otherUsers) <= MAX_BATCH_SIZE) THEN Fail(st, ErrBatchTooMany)
    ELSE BatchLoopNoTargetGrant(st, sender, otherUsers, 1)

\* variant: an already performed pair is compared and stored again
RECURSIVE BatchLoopNoSkip(_, _, _, _)
BatchLoopNoSkip(st, sender, otherUsers, i) ==
    IF i > Len(otherUsers) THEN Ok(st)
    ELSE
      LET otherUser == otherUsers[i] IN
      IF ~st.hasSalary[otherUser] THEN Fail(st, ErrBatchOtherNoSalary)
      ELSE IF sender = otherUser THEN Fail(st, ErrBatchSelf)
      ELSE IF \E j \in 1..(i - 1) : otherUsers[j] = otherUser
           THEN Fail(st, ErrBatchDuplicate)
      ELSE BatchLoopNoSkip(StoreComparison(st, sender, otherUser), sender, otherUsers, i + 1)

batchCompareSalariesNoSkip(st, sender, otherUsers) ==
    IF ~st.hasSalary[sender] THEN Fail(st, ErrNoSalary)
    ELSE IF ~(Len(otherUsers) > 0) THEN Fail(st, ErrBatchEmpty)
    ELSE IF ~(Len(otherUsers) <= MAX_BATCH_SIZE) THEN Fail(st, ErrBatchTooMany)
    ELSE BatchLoopNoSkip(st, sender, otherUsers, 1)

\* variant: the loop runs from the last entry to the first
RECURSIVE BatchLoopBackwards(_, _, _, _)
BatchLoopBackwards(st, sender, otherUsers, i) ==
    IF i < 1 THEN Ok(st)
    ELSE
      LET otherUser == otherUsers[i] IN
      IF ~st.hasSalary[otherUser] THEN Fail(st, ErrBatchOtherNoSalary)
      ELSE IF sender = otherUser THEN Fail(st, ErrBatchSelf)
      ELSE IF st.comparisonPerformed[sender][otherUser]
           THEN BatchLoopBackwards(st, sender, otherUsers, i - 1)
      ELSE IF \E j \in (i + 1)..Len(otherUsers) : otherUsers[j] = otherUser
           THEN Fail(st, ErrBatchDuplicate)
      ELSE BatchLoopBackwards(StoreComparison(st, sender, otherUser), sender, otherUsers, i - 1)

batchCompareSalariesBackwards(st, sender, otherUsers) ==
    IF ~st.hasSalary[sender] THEN Fail(st, ErrNoSalary)
    ELSE IF ~(Len(otherUsers) > 0) THEN Fail(st, ErrBatchEmpty)
    ELSE IF ~(Len(otherUsers) <= MAX_BATCH_SIZE) THEN Fail(st, ErrBatchTooMany)
    ELSE BatchLoopBackwards(st, sender, otherUsers, Len(otherUsers))

\* variant: the size checks come before the check of the sender's salary
batchCompareSalariesSizeFirst(st, sender, otherUsers) ==
    IF ~(Len(otherUsers) > 0) THEN Fail(st, ErrBatchEmpty)
    ELSE IF ~(Len(otherUsers) <= MAX_BATCH_SIZE) THEN Fail(st, ErrBatchTooMany)
    ELSE IF ~st.hasSalary[sender] THEN Fail(st, ErrNoSalary)
    ELSE BatchLoop(st, sender, otherUsers, 1)

\* variant: no check for an empty array
batchCompareSalariesNoEmptyCheck(st, sender, otherUsers) ==
    IF ~st.hasSalary[sender] THEN Fail(st, ErrNoSalary)
    ELSE IF ~(Len(otherUsers) <= MAX_BATCH_SIZE) THEN Fail(st, ErrBatchTooMany)
    ELSE BatchLoop(st, sender, otherUsers, 1)

\* variant: the size check is strict, so an array of MAX_BATCH_SIZE fails
batchCompareSalariesStrictCap(st, sender, otherUsers) ==
    IF ~st.hasSalary[sender] THEN Fail(st, ErrNoSalary)
    ELSE IF ~(Len(otherUsers) > 0) THEN Fail(st, ErrBatchEmpty)
    ELSE IF ~(Len(otherUsers) < MAX_BATCH_SIZE) THEN Fail(st, ErrBatchTooMany)
    ELSE BatchLoop(st, sender, otherUsers, 1)

batchCompareSalaries(st, sender, otherUsers) ==
    IF ~st.hasSalary[sender] THEN Fail(st, ErrNoSalary)
    ELSE IF ~(Len(otherUsers) > 0) THEN Fail(st, ErrBatchEmpty)
    ELSE IF ~(Len(otherUsers) <= MAX_BATCH_SIZE) THEN Fail(st, ErrBatchTooMany)
    ELSE BatchLoop(st, sender, otherUsers, 1)

(***************************************************************************)
(* View functions: they read the storage and return a handle or revert     *)
(***************************************************************************)
\* the values a call returns: a handle (ret), a bool (flag), and the two
\* counters of getContractInfo (info); the ones a function does not return
\* are left at their defaults
NoInfo == <<0, 0>>
Return(handle) == [error |-> NoError, ret |-> handle, flag |-> FALSE, info |-> NoInfo]
ReturnBool(b) == [error |-> NoError, ret |-> ZeroHandle, flag |-> b, info |-> NoInfo]
ReturnInfo(totalUsers, totalComparisons) ==
    [error |-> NoError, ret |-> ZeroHandle, flag |-> FALSE,
     info |-> <<totalUsers, totalComparisons>>]
ViewFail(msg) == [error |-> msg, ret |-> ZeroHandle, flag |-> FALSE, info |-> NoInfo]

\* variant: the pair is looked up in either direction
hasComparisonSymmetric(st, user1, user2) ==
    ReturnBool(st.comparisonPerformed[user1][user2]
               \/ st.comparisonPerformed[user2][user1])

hasComparison(st, user1, user2) ==
    ReturnBool(st.comparisonPerformed[user1][user2])

\* getContractInfo: userCount and comparisonCount are local variables set
\* to 0 and returned as they are (the version string is left out)
getContractInfo(st) ==
    LET userCount == 0
        comparisonCount == 0
    IN  ReturnInfo(userCount, comparisonCount)

\* variant: no check that the caller has a salary
getMySalaryNoCheck(st, sender) == Return(st.salaries[sender])

getMySalary(st, sender) ==
    IF ~st.hasSalary[sender] THEN ViewFail(ErrNoSalary)
    ELSE Return(st.salaries[sender])

\* variant: the existence check comes before the participant check
getComparisonResultExistenceFirst(st, sender, user1, user2) ==
    IF ~st.comparisonPerformed[user1][user2] THEN ViewFail(ErrNotPerformed)
    ELSE IF ~(sender = user1 \/ sender = user2) THEN ViewFail(ErrNotParticipant)
    ELSE Return(st.comparisonResults[user1][user2])

\* variant: the pair is looked up in either direction
getComparisonResultSymmetric(st, sender, user1, user2) ==
    IF ~(sender = user1 \/ sender = user2) THEN ViewFail(ErrNotParticipant)
    ELSE IF st.comparisonPerformed[user1][user2]
         THEN Return(st.comparisonResults[user1][user2])
    ELSE IF st.comparisonPerformed[user2][user1]
         THEN Return(st.comparisonResults[user2][user1])
    ELSE ViewFail(ErrNotPerformed)

getComparisonResult(st, sender, user1, user2) ==
    IF ~(sender = user1 \/ sender = user2) THEN ViewFail(ErrNotParticipant)
    ELSE IF ~st.comparisonPerformed[user1][user2] THEN ViewFail(ErrNotPerformed)
    ELSE Return(st.comparisonResults[user1][user2])

(***************************************************************************)
(* Transactions                                                            *)
(***************************************************************************)
\* variant: what the call wrote before a failing require is kept
RevertKeepsProgress(pre, res) == res.st

\* the state a transaction leaves behind: a revert discards everything the
\* call wrote, including its events
Revert(pre, res) == IF res.error = NoError THEN res.st ELSE pre

\* the SalaryCompared events of a committed transaction, counted per pair
CountCompared(log, evs) ==
    [u1 \in DOMAIN log |->
        [u2 \in DOMAIN log[u1] |->
            log[u1][u2] +
            Cardinality({k \in 1..Len(evs) : evs[k] = SalaryCompared(u1, u2)})]]

Call(op, sender, otherUser, otherUsers, val, proofOk) ==
    [op |-> op, sender |-> sender, otherUser |-> otherUser,
     otherUsers |-> otherUsers, val |-> val, proofOk |-> proofOk]

ViewFunctions ==
    {"getMySalary", "getComparisonResult", "hasComparison", "getContractInfo"}

\* A behaviour ends at its first reverted transaction or view call: both
\* leave storage and ACL as they were, so the calls that could follow are
\* the calls explored from the state the call was made in.
Continues == lastCall.error = NoError /\ lastCall.call.op \notin ViewFunctions

Transact(call, res, maxCalls) ==
    /\ Continues
    /\ calls < maxCalls
    /\ calls' = calls + 1
    /\ LET post == Revert(Cur, res) IN
        /\ salaries' = post.salaries
        /\ hasSalary' = post.hasSalary
        /\ comparisonResults' = post.comparisonResults
        /\ comparisonPerformed' = post.comparisonPerformed
        /\ acl' = post.acl
        /\ comparedLog' = CountCompared(comparedLog, post.logs)
        /\ lastCall' = [call |-> call, error |-> res.error, logs |-> post.logs,
                        ret |-> ZeroHandle, flag |-> FALSE, info |-> NoInfo]
    /\ UNCHANGED <<ui, dash>>

\* a call of a view function: nothing is written, nothing is emitted
Query(call, res, maxCalls) ==
    /\ Continues
    /\ calls < maxCalls
    /\ calls' = calls + 1
    /\ lastCall' = [call |-> call, error |-> res.error, logs |-> <<>>,
                    ret |-> res.ret, flag |-> res.flag, info |-> res.info]
    /\ UNCHANGED <<salaries, hasSalary, comparisonResults, comparisonPerformed,
                   acl, comparedLog>>
    /\ UNCHANGED <<ui, dash>>

SubmitSalary(sender, val, proofOk, maxCalls) ==
    Transact(Call("submitSalary", sender, NoUser, <<>>, val, proofOk),
             submitSalary(Cur, sender, val, proofOk), maxCalls)

UpdateSalary(sender, val, proofOk, maxCalls) ==
    Transact(Call("updateSalary", sender, NoUser, <<>>, val, proofOk),
             updateSalary(Cur, sender, val, proofOk), maxCalls)

CompareSalaries(sender, otherUser, maxCalls) ==
    Transact(Call("compareSalaries", sender, otherUser, <<>>, 0, TRUE),
             compareSalaries(Cur, sender, otherUser), maxCalls)

BatchCompareSalaries(sender, otherUsers, maxCalls) ==
    Transact(Call("batchCompareSalaries", sender, NoUser, otherUsers, 0, TRUE),
             batchCompareSalaries(Cur, sender, otherUsers), maxCalls)

GetMySalary(sender, maxCalls) ==
    Query(Call("getMySalary", sender, NoUser, <<>>, 0, TRUE),
          getMySalary(Cur, sender), maxCalls)

\* the two arguments user1, user2 are recorded as otherUsers
GetComparisonResult(sender, user1, user2, maxCalls) ==
    Query(Call("getComparisonResult", sender, NoUser, <<user1, user2>>, 0, TRUE),
          getComparisonResult(Cur, sender, user1, user2), maxCalls)

HasComparison(sender, user1, user2, maxCalls) ==
    Query(Call("hasComparison", sender, NoUser, <<user1, user2>>, 0, TRUE),
          hasComparison(Cur, user1, user2), maxCalls)

GetContractInfo(sender, maxCalls) ==
    Query(Call("getContractInfo", sender, NoUser, <<>>, 0, TRUE),
          getContractInfo(Cur), maxCalls)

(***************************************************************************)
(* SalaryCompareDemo: the salary form.  Every render creates a new         *)
(* handleSalarySubmit that closes over that render's salaryInput,          *)
(* retryCount and salaryCompare; the retry timer calls the function that   *)
(* scheduled it, so a retry reads the values of the render it came from.   *)
(***************************************************************************)
MAX_SALARY == 10000000

\* the texts typed into the salary field
InputStrings == {"", "0", "65000", "10000001"}

\* parseInt on these texts: "" gives NaN
parseInt(str) ==
    CASE str = "" -> [nan |-> TRUE, n |-> 0]
      [] str = "0" -> [nan |-> FALSE, n |-> 0]
      [] str = "65000" -> [nan |-> FALSE, n |-> 65000]
      [] str = "10000001" -> [nan |-> FALSE, n |-> 10000001]

\* salary > 0 && salary <= MAX_SALARY; a comparison with NaN is false
SalaryInRange(str) ==
    LET salary == parseInt(str)
    IN  ~salary.nan /\ salary.n > 0 /\ salary.n <= MAX_SALARY

\* the form after mounting
FormMounted ==
    [salaryInput |-> "", retryCount |-> 0, canSubmit |-> FALSE, runs |-> <<>>]

\* handleSalarySubmit called from the page (button or Enter key): the guard
\* and, when it passes, the call of salaryCompare.submitSalary.  A run
\* records what the closure captured, where it stands ("call": awaiting
\* submitSalary, "timer": retry scheduled, "done": resolved, "failed":
\* rejected and not retried, "stopped": guard refused the retry), and the
\* number of submitSalary calls it has made.
handleSalarySubmit(u) ==
    IF SalaryInRange(u.salaryInput) /\ u.canSubmit
    THEN [u EXCEPT !.runs = Append(@, [salaryInput |-> u.salaryInput,
                                       retryCount |-> u.retryCount,
                                       pc |-> "call", calls |-> 1])]
    ELSE u

\* the awaited submitSalary resolved
submitResolved(u, r) ==
    [u EXCEPT !.salaryInput = "", !.retryCount = 0, !.runs[r].pc = "done"]

\* the awaited submitSalary rejected: the catch block, testing the
\* retryCount the closure captured
submitRejected(u, r) ==
    IF u.runs[r].retryCount < 3
    THEN [u EXCEPT !.retryCount = @ + 1, !.runs[r].pc = "timer"]
    ELSE [u EXCEPT !.runs[r].pc = "failed"]

\* the retry timer fired: handleSalarySubmit of the same closure runs again;
\* canSubmit is what the captured salaryCompare object shows at that time
retrySalarySubmit(u, r, canSubmit) ==
    IF SalaryInRange(u.runs[r].salaryInput) /\ canSubmit
    THEN [u EXCEPT !.runs[r].pc = "call", !.runs[r].calls = @ + 1]
    ELSE [u EXCEPT !.runs[r].pc = "stopped"]

FormStep(u) == ui' = u /\ UNCHANGED ContractVars /\ UNCHANGED dash

TypeSalary(str) ==
    /\ str # ui.salaryInput
    /\ FormStep([ui EXCEPT !.salaryInput = str])

\* useSalaryCompare recomputes canSubmit
SetCanSubmit(b) ==
    /\ b # ui.canSubmit
    /\ FormStep([ui EXCEPT !.canSubmit = b])

HandleSalarySubmit ==
    /\ Len(ui.runs) < MaxRuns
    /\ handleSalarySubmit(ui) # ui
    /\ FormStep(handleSalarySubmit(ui))

SubmitResolves(r) ==
    /\ ui.runs[r].pc = "call"
    /\ FormStep(submitResolved(ui, r))

SubmitRejects(r) ==
    /\ ui.runs[r].pc = "call"
    /\ FormStep(submitRejected(ui, r))

\* the captured salaryCompare is the object of the render of the click,
\* where canSubmit was true, unless the hook hands out one object that it
\* keeps up to date
RetryTimerFires(r) ==
    /\ ui.runs[r].pc = "timer"
    /\ ui.runs[r].calls < MaxSubmitCalls
    /\ \E canSubmit \in {TRUE, ui.canSubmit} :
          FormStep(retrySalarySubmit(ui, r, canSubmit))

(***************************************************************************)
(* SalaryDashboard: the effect that loads the statistics.  It runs at      *)
(* mount and again whenever provider, chainId or isConnected changes; it   *)
(* has no cleanup, so the loads of earlier runs stay in flight.            *)
(* salaryRange and salaryDistribution, computed from the same inputs as    *)
(* the other fields, are left out of the statistics.                       *)
(***************************************************************************)
baseAverage == 87500
baseMedian == 82000

\* chainId: undefined, a chain with a SalaryCompare address, one without
ChainIds == {"undefined", "deployed", "undeployed"}

\* useState initial value of stats
InitialStats ==
    [totalUsers |-> 0, totalComparisons |-> 0, averageSalary |-> 0,
     medianSalary |-> 0]

\* the statistics computed from the result of getContractInfo;
\* Math.round(baseAverage + userCount * 2.5) and
\* Math.round(baseMedian + userCount * 1.8) in integer arithmetic
ContractStats(info) ==
    LET userCount == info[1]
        comparisonCount == info[2]
        calculatedAverage ==
            IF userCount > 0 THEN baseAverage + (userCount * 5 + 1) \div 2
            ELSE baseAverage
        calculatedMedian ==
            IF userCount > 0 THEN baseMedian + (userCount * 18 + 5) \div 10
            ELSE baseMedian
    IN  [totalUsers |-> userCount, totalComparisons |-> comparisonCount,
         averageSalary |-> calculatedAverage, medianSalary |-> calculatedMedian]

\* realisticStats, the mock data of the fallback
MockStats ==
    [totalUsers |-> 1847, totalComparisons |-> 4523, averageSalary |-> 104566,
     medianSalary |-> 95000]

\* the component as first rendered with the given props
DashboardRendered(provider, chainId, isConnected) ==
    [provider |-> provider, chainId |-> chainId, isConnected |-> isConnected,
     stats |-> InitialStats, isLoading |-> TRUE, loads |-> <<>>, timers |-> <<>>]

\* loadStats up to its first await.  A load records the path it took
\* ("contract": getContractInfo called, "rejected": the call threw,
\* "fallback": no provider, chain, connection or address, "outer": the
\* outer catch) and where it stands ("call": awaiting getContractInfo,
\* "timer": awaiting the 600 ms timer, "done").  throws: constructing the
\* provider or the contract object raised an exception.
loadStats(d, throws) ==
    LET l == Len(d.loads) + 1
        d1 == [d EXCEPT !.isLoading = TRUE]
    IN  IF d.provider /\ d.chainId # "undefined" /\ d.isConnected
           /\ d.chainId = "deployed"
        THEN IF throws
             THEN [d1 EXCEPT !.loads = Append(@, [path |-> "outer", pc |-> "timer"]),
                             !.timers = Append(@, l)]
             ELSE [d1 EXCEPT !.loads = Append(@, [path |-> "contract", pc |-> "call"])]
        ELSE [d1 EXCEPT !.loads = Append(@, [path |-> "fallback", pc |-> "timer"]),
                        !.timers = Append(@, l)]

\* getContractInfo resolved with info: statistics stored, loading over
contractInfoResolved(d, l, info) ==
    [d EXCEPT !.stats = ContractStats(info), !.isLoading = FALSE,
              !.loads[l].pc = "done"]

\* variant: a failed contract call ends the load
contractInfoRejectedGivesUp(d, l) ==
    [d EXCEPT !.loads[l].path = "rejected", !.loads[l].pc = "done"]

\* getContractInfo rejected: the inner catch logs, and the load goes on to
\* the fallback and its timer
contractInfoRejected(d, l) ==
    [d EXCEPT !.loads[l].path = "rejected", !.loads[l].pc = "timer",
              !.timers = Append(@, l)]

\* the 600 ms timer of load l fired: the mock data is stored
mockTimerFired(d, l) ==
    [d EXCEPT !.stats = MockStats, !.isLoading = FALSE,
              !.loads[l].pc = "done", !.timers = Tail(@)]

DashStep(d) == dash' = d /\ UNCHANGED ContractVars /\ UNCHANGED ui

\* a prop or isConnected changed: re-render and run the effect again
PropsChange(provider, chainId, isConnected, throws) ==
    /\ Len(dash.loads) < MaxLoads
    /\ <<provider, chainId, isConnected>> #
           <<dash.provider, dash.chainId, dash.isConnected>>
    /\ DashStep(loadStats([dash EXCEPT !.provider = provider,
                                       !.chainId = chainId,
                                       !.isConnected = isConnected], throws))

\* the contract answers the eth_call with what getContractInfo returns
ContractInfoResolves(l) ==
    /\ dash.loads[l].pc = "call"
    /\ DashStep(contractInfoResolved(dash, l, getContractInfo(Cur).info))

ContractInfoRejects(l) ==
    /\ dash.loads[l].pc = "call"
    /\ DashStep(contractInfoRejected(dash, l))

\* timers of equal delay fire in the order they were set
MockTimerFires ==
    /\ dash.timers # <<>>
    /\ DashStep(mockTimerFired(dash, Head(dash.timers)))

(***************************************************************************)
(* Inputs                                                                  *)
(***************************************************************************)
SeqsUpTo(S, n) == UNION {[1..k -> S] : k \in 0..n}

\* one array longer than MAX_BATCH_SIZE per first element
Oversized(S) == {[k \in 1..(MAX_BATCH_SIZE + 1) |-> u] : u \in S}

BatchInputs(S, n) == SeqsUpTo(S, n) \cup Oversized(S)

(***************************************************************************)
(* Specification over three accounts                                       *)
(***************************************************************************)
\* the dashboard as mounted by the page before a wallet is connected
DashboardMounted == loadStats(DashboardRendered(FALSE, "undefined", FALSE), FALSE)

\* the contract after deployment, over the accounts S
Deployed(S) ==
    /\ salaries = [u \in S |-> ZeroHandle]
    /\ hasSalary = [u \in S |-> FALSE]
    /\ comparisonResults = [u \in S |-> [v \in S |-> ZeroHandle]]
    /\ comparisonPerformed = [u \in S |-> [v \in S |-> FALSE]]
    /\ acl = {}
    /\ comparedLog = [u \in S |-> [v \in S |-> 0]]
    /\ calls = 0
    /\ lastCall = [call |-> Call("constructor", NoUser, NoUser, <<>>, 0, TRUE),
                   error |-> NoError, logs |-> <<>>, ret |-> ZeroHandle,
                   flag |-> FALSE, info |-> NoInfo]

InitOver(S) ==
    /\ Deployed(S)
    /\ ui = FormMounted
    /\ dash = DashboardMounted

Init == InitOver(Users)

Next ==
    \/ \E u \in Users, val \in SalaryInputs, p \in BOOLEAN : SubmitSalary(u, val, p, MaxCalls)
    \/ \E u \in Users, val \in SalaryInputs, p \in BOOLEAN : UpdateSalary(u, val, p, MaxCalls)
    \/ \E u \in Users, o \in Users : CompareSalaries(u, o, MaxCalls)
    \/ \E u \in Users, os \in BatchInputs(Users, MaxBatchLen) : BatchCompareSalaries(u, os, MaxCalls)
    \/ \E u \in Users : GetMySalary(u, MaxCalls)
    \/ \E u \in Users, u1 \in Users, u2 \in Users : GetComparisonResult(u, u1, u2, MaxCalls)
    \/ \E u \in Users, u1 \in Users, u2 \in Users : HasComparison(u, u1, u2, MaxCalls)
    \/ \E u \in Users : GetContractInfo(u, MaxCalls)

Spec == Init /\ [][Next]_vars

(***************************************************************************)
(* Specification over four accounts: submissions of one fixed salary and   *)
(* batches of up to MaxBatchLen4 entries                                   *)
(***************************************************************************)
Init4 == InitOver(Users4)

Next4 ==
    \/ \E u \in Users4 : SubmitSalary(u, 1, TRUE, MaxCalls4)
    \/ \E u \in Users4, os \in BatchInputs(Users4, MaxBatchLen4) : BatchCompareSalaries(u, os, MaxCalls4)

Spec4 == Init4 /\ [][Next4]_vars

(***************************************************************************)
(* Specification over twelve accounts, for batches at the size limit:      *)
(* every account submits one salary, once, and a sender batches the first  *)
(* MAX_BATCH_SIZE or MAX_BATCH_SIZE + 1 of the other accounts              *)
(***************************************************************************)
UserSeq12 == <<"a", "b", "c", "d", "e", "f", "g", "h", "i", "j", "k", "l">>
Users12 == {UserSeq12[i] : i \in 1..Len(UserSeq12)}

\* the accounts other than sender, in the order of UserSeq12
OthersOf(sender) == SelectSeq(UserSeq12, LAMBDA u : u # sender)

\* an array of n distinct accounts, none of them the sender
FirstOthers(sender, n) == SubSeq(OthersOf(sender), 1, n)

Init12 == InitOver(Users12)

Next12 ==
    \/ \E u \in Users12 : ~hasSalary[u] /\ SubmitSalary(u, 1, TRUE, MaxCalls12)
    \/ \E u \in Users12, n \in {MAX_BATCH_SIZE, MAX_BATCH_SIZE + 1} :
          BatchCompareSalaries(u, FirstOthers(u, n), MaxCalls12)

Spec12 == Init12 /\ [][Next12]_vars

(***************************************************************************)
(* Vocabulary of the properties                                            *)
(***************************************************************************)
\* the step sends the transaction `call`
Sent(call) == calls' = calls + 1 /\ lastCall'.call = call

CompareCall(sender, otherUser) ==
    Call("compareSalaries", sender, otherUser, <<>>, 0, TRUE)

BatchCall(sender, otherUsers) ==
    Call("batchCompareSalaries", sender, NoUser, otherUsers, 0, TRUE)

\* the reverts that report a missing salary
NotFoundErrors == {ErrNoSalary, ErrOtherNoSalary, ErrUpdateFirst, ErrBatchOtherNoSalary}

\* storage, grants and committed events are left as they were
NothingWritten ==
    UNCHANGED <<salaries, hasSalary, comparisonResults, comparisonPerformed,
                acl, comparedLog>>

NoRecords(S) == \A u \in S, v \in S : ~comparisonPerformed[u][v]

(***************************************************************************)
(* C1  batchCompareSalaries over [B, C, D] with D lacking a salary         *)
(***************************************************************************)
\* the scenario: A, B, C hold salaries, D holds none, no record exists, and
\* A sends batchCompareSalaries([B, C, D])
C1_Scenario(A, B, C, D) ==
    /\ Cardinality({A, B, C, D}) = 4
    /\ hasSalary[A] /\ hasSalary[B] /\ hasSalary[C] /\ ~hasSalary[D]
    /\ NoRecords(Users4)
    /\ Sent(BatchCall(A, <<B, C, D>>))

C2_DuplicateRejected ==
    [][\A A \in Users, B \in Users :
          (A # B /\ hasSalary[A] /\ hasSalary[B] /\ Sent(BatchCall(A, <<B, B>>))) =>
              /\ lastCall'.error = ErrBatchDuplicate
              /\ comparisonPerformed' = comparisonPerformed]_vars

(***************************************************************************)
(* C3  a performed comparison is terminal                                  *)
(***************************************************************************)
\* C3: once comparisonPerformed[A][B] is true it stays true and the stored
\* result handle of (A,B) is never replaced, whatever transaction follows.
C3_PerformedIsTerminal ==
    [][\A A \in Users, B \in Users :
          comparisonPerformed[A][B] =>
              /\ comparisonPerformed'[A][B]
              /\ comparisonResults'[A][B] = comparisonResults[A][B]]_vars

\* a has updated its salary after the comparison (a, b): the stored result
\* is no longer the comparison of the current handles
C3_Witness ==
    /\ comparisonPerformed["a"]["b"]
    /\ lastCall.call.op = "updateSalary" /\ lastCall.call.sender = "a"
    /\ lastCall.error = NoError
    /\ comparisonResults["a"]["b"] # FHE_gt(salaries["a"], salaries["b"])

(***************************************************************************)
(* C4  a comparison writes its own ordered pair only                       *)
(***************************************************************************)
\* C4: for A != B both holding salaries and no record (A,B),
\* compareSalaries(B) by A succeeds, creates the record (A,B) and leaves the
\* record and result of every other ordered pair, (B,A) included, as they
\* were; whether (B,A) exists plays no part in the outcome.
C4_OrderedPairOnly ==
    [][\A A \in Users, B \in Users :
          (/\ A # B /\ hasSalary[A] /\ hasSalary[B]
           /\ ~comparisonPerformed[A][B]
           /\ Sent(CompareCall(A, B))) =>
              /\ lastCall'.error = NoError
              /\ comparisonPerformed'[A][B]
              /\ \A u \in Users, v \in Users :
                    <<u, v>> # <<A, B>> =>
                        /\ comparisonPerformed'[u][v] = comparisonPerformed[u][v]
                        /\ comparisonResults'[u][v] = comparisonResults[u][v]]_vars

\* compareSalaries(b) by a succeeded and (b, a) is still unrecorded
C4_Witness ==
    /\ lastCall.call = CompareCall("a", "b")
    /\ lastCall.error = NoError
    /\ comparisonPerformed["a"]["b"]
    /\ ~comparisonPerformed["b"]["a"]

(***************************************************************************)
(* C5  a repeated compareSalaries is a hard failure                        *)
(***************************************************************************)
\* C5: compareSalaries(B) by A when the record (A,B) exists fails with
\* "already performed" and leaves record, grants and events unchanged.
C5_RepeatFails ==
    [][\A A \in Users, B \in Users :
          (comparisonPerformed[A][B] /\ Sent(CompareCall(A, B))) =>
              /\ lastCall'.error = ErrAlready
              /\ lastCall'.logs = <<>>
              /\ NothingWritten]_vars

C5_Witness ==
    /\ lastCall.call = CompareCall("a", "b")
    /\ lastCall.error = ErrAlready
    /\ comparisonPerformed["a"]["b"]
    /\ comparedLog["a"]["b"] = 1

(***************************************************************************)
(* C6  a batch skips the pairs already performed                           *)
(***************************************************************************)
\* C6: when the record (A,B) exists and C is a fresh valid target,
\* batchCompareSalaries([B, C]) by A succeeds, leaves the record and result
\* of (A,B) unchanged, emits no event for B and creates the record (A,C).
C6_BatchSkips ==
    [][\A A \in Users, B \in Users, C \in Users :
          (/\ comparisonPerformed[A][B]
           /\ C # A /\ C # B /\ hasSalary[C] /\ ~comparisonPerformed[A][C]
           /\ Sent(BatchCall(A, <<B, C>>))) =>
              /\ lastCall'.error = NoError
              /\ comparisonPerformed'[A][B]
              /\ comparisonResults'[A][B] = comparisonResults[A][B]
              /\ lastCall'.logs = <<SalaryCompared(A, C)>>
              /\ comparedLog'[A][B] = comparedLog[A][B]
              /\ comparisonPerformed'[A][C]
              /\ comparisonResults'[A][C] = FHE_gt(salaries[A], salaries[C])]_vars

C6_Witness ==
    /\ lastCall.call = BatchCall("a", <<"b", "c">>)
    /\ lastCall.error = NoError
    /\ lastCall.logs = <<SalaryCompared("a", "c")>>
    /\ comparisonPerformed["a"]["b"] /\ comparisonPerformed["a"]["c"]

(***************************************************************************)
(* C7  self-comparison                                                     *)
(***************************************************************************)
\* C7: compareSalaries(A) by A fails with the self-comparison error in
\* every state, with or without a salary of A, and changes no state.
C7_SelfComparisonFails ==
    [][\A A \in Users :
          Sent(CompareCall(A, A)) =>
              /\ lastCall'.error = ErrSelf
              /\ lastCall'.logs = <<>>
              /\ NothingWritten]_vars

\* the self check wins over the missing salary of the sender
C7_Witness ==
    /\ lastCall.call = CompareCall("a", "a")
    /\ lastCall.error = ErrSelf
    /\ ~hasSalary["a"]

(***************************************************************************)
(* C8  comparison with a missing salary                                    *)
(***************************************************************************)
\* C8: for A != B, compareSalaries(B) by A fails with a missing-salary error
\* whenever A or B holds no salary and creates no record; the error names
\* the other user only when the sender holds a salary, so with both missing
\* the sender is the reported side.
C8_MissingSalaryFails ==
    [][\A A \in Users, B \in Users :
          (A # B /\ (~hasSalary[A] \/ ~hasSalary[B]) /\ Sent(CompareCall(A, B))) =>
              /\ lastCall'.error \in NotFoundErrors
              /\ lastCall'.error = IF hasSalary[A] THEN ErrOtherNoSalary ELSE ErrNoSalary
              /\ comparisonPerformed' = comparisonPerformed
              /\ comparisonResults' = comparisonResults]_vars

\* both sides missing: the sender is reported
C8_Witness ==
    /\ lastCall.call = CompareCall("a", "b")
    /\ lastCall.error = ErrNoSalary
    /\ ~hasSalary["a"] /\ ~hasSalary["b"]

(***************************************************************************)
(* C9  presence of a salary is one-way                                     *)
(***************************************************************************)
\* C9: once hasSalary[A] is true it is true in every later state.
C9_PresenceMonotonic ==
    [][\A A \in Users : hasSalary[A] => hasSalary'[A]]_vars

\* a has replaced its salary and is still present
C9_Witness ==
    /\ lastCall.call.op = "updateSalary" /\ lastCall.call.sender = "a"
    /\ lastCall.error = NoError
    /\ hasSalary["a"]
    /\ salaries["a"] = FHE_fromExternal("a", lastCall.call.val)

(***************************************************************************)
(* C10  well-formed comparison records                                     *)
(***************************************************************************)
\* C10: every comparison record has requester != target and both requester
\* and target hold a registered salary.
C10_RecordsWellFormed ==
    \A A \in Users, B \in Users :
        comparisonPerformed[A][B] => (A # B /\ hasSalary[A] /\ hasSalary[B])

\* records created by compareSalaries and by batchCompareSalaries coexist
C10_Witness ==
    /\ lastCall.call.op = "batchCompareSalaries" /\ lastCall.error = NoError
    /\ Len(lastCall.logs) = 2
    /\ \E A \in Users, B \in Users :
          comparisonPerformed[A][B] /\ A # lastCall.call.sender

(***************************************************************************)
(* More vocabulary                                                         *)
(***************************************************************************)
SubmitCall(sender, val, proofOk) ==
    Call("submitSalary", sender, NoUser, <<>>, val, proofOk)

UpdateCall(sender, val, proofOk) ==
    Call("updateSalary", sender, NoUser, <<>>, val, proofOk)

GetMySalaryCall(sender) == Call("getMySalary", sender, NoUser, <<>>, 0, TRUE)

GetComparisonCall(sender, user1, user2) ==
    Call("getComparisonResult", sender, NoUser, <<user1, user2>>, 0, TRUE)

\* the step is a call of function op
SentOp(op) == calls' = calls + 1 /\ lastCall'.call.op = op

\* the step leaves the state that the handler result res commits
PostIs(res) ==
    /\ res.error = NoError
    /\ salaries' = res.st.salaries
    /\ hasSalary' = res.st.hasSalary
    /\ comparisonResults' = res.st.comparisonResults
    /\ comparisonPerformed' = res.st.comparisonPerformed
    /\ acl' = res.st.acl
    /\ lastCall'.logs = res.st.logs
    /\ comparedLog' = CountCompared(comparedLog, res.st.logs)

(***************************************************************************)
(* C11  only the two participants read a comparison result                 *)
(***************************************************************************)
\* C11: getComparisonResult(user1, user2) fails with the participant error
\* for every caller that is neither user1 nor user2, whether or not the
\* record exists; when the record exists, user1 and user2 both obtain the
\* result handle stored for that ordered pair.
C11_OnlyParticipantsRead ==
    [][\A V \in Users, U1 \in Users, U2 \in Users :
          Sent(GetComparisonCall(V, U1, U2)) =>
              /\ (V # U1 /\ V # U2) => lastCall'.error = ErrNotParticipant
              /\ ((V = U1 \/ V = U2) /\ comparisonPerformed[U1][U2]) =>
                    /\ lastCall'.error = NoError
                    /\ lastCall'.ret = comparisonResults[U1][U2]]_vars

\* c asks for the existing record (a, b) and is refused
C11_Witness ==
    /\ lastCall.call = GetComparisonCall("c", "a", "b")
    /\ lastCall.error = ErrNotParticipant
    /\ comparisonPerformed["a"]["b"]

(***************************************************************************)
(* C12  no symmetric lookup                                                *)
(***************************************************************************)
\* C12: with a record for (A,B) and none for (B,A), getComparisonResult(B, A)
\* by A or B fails with "not performed", while getComparisonResult(A, B)
\* returns the stored result.
C12_NoSymmetricLookup ==
    [][\A A \in Users, B \in Users, V \in Users :
          (/\ comparisonPerformed[A][B] /\ ~comparisonPerformed[B][A]
           /\ V \in {A, B}) =>
              /\ Sent(GetComparisonCall(V, B, A)) =>
                    lastCall'.error = ErrNotPerformed /\ lastCall'.ret = ZeroHandle
              /\ Sent(GetComparisonCall(V, A, B)) =>
                    /\ lastCall'.error = NoError
                    /\ lastCall'.ret = comparisonResults[A][B]]_vars

C12_Witness ==
    /\ lastCall.call = GetComparisonCall("b", "b", "a")
    /\ lastCall.error = ErrNotPerformed
    /\ comparisonPerformed["a"]["b"] /\ ~comparisonPerformed["b"]["a"]

(***************************************************************************)
(* C13  one current salary per account                                     *)
(***************************************************************************)
\* C13: submitSalary with a valid proof succeeds whether or not the sender
\* has a salary; a successful submitSalary or updateSalary by A stores the
\* handle of that call for A, no other step changes A's stored handle, and
\* getMySalary by A returns the stored handle.
C13_LatestSalaryReturned ==
    [][\A A \in Users :
          /\ \A v \in SalaryInputs :
                /\ Sent(SubmitCall(A, v, TRUE)) =>
                      /\ lastCall'.error = NoError
                      /\ hasSalary'[A]
                      /\ salaries'[A] = FHE_fromExternal(A, v)
                /\ (hasSalary[A] /\ Sent(UpdateCall(A, v, TRUE))) =>
                      /\ lastCall'.error = NoError
                      /\ salaries'[A] = FHE_fromExternal(A, v)
          /\ (\/ lastCall'.error # NoError
              \/ lastCall'.call.sender # A
              \/ lastCall'.call.op \notin {"submitSalary", "updateSalary"}) =>
                salaries'[A] = salaries[A]
          /\ (hasSalary[A] /\ Sent(GetMySalaryCall(A))) =>
                /\ lastCall'.error = NoError
                /\ lastCall'.ret = salaries[A]]_vars

\* a submitted input 1 earlier and input 2 last: input 2 is returned
C13_Witness ==
    /\ lastCall.call = GetMySalaryCall("a")
    /\ lastCall.error = NoError
    /\ lastCall.ret = FHE_fromExternal("a", 2)
    /\ <<FHE_fromExternal("a", 1), "a">> \in acl

(***************************************************************************)
(* C14  updateSalary                                                       *)
(***************************************************************************)
\* C14: updateSalary by a sender without a salary fails with "submit first"
\* and leaves storage, grants and events unchanged; by a sender with a
\* salary it writes what submitSalary writes and emits SalaryUpdated
\* instead of SalarySubmitted.
C14_UpdateLikeSubmit ==
    [][\A A \in Users, v \in SalaryInputs, p \in BOOLEAN :
          /\ (~hasSalary[A] /\ Sent(UpdateCall(A, v, p))) =>
                /\ lastCall'.error = ErrUpdateFirst
                /\ lastCall'.logs = <<>>
                /\ NothingWritten
          /\ (hasSalary[A] /\ Sent(UpdateCall(A, v, TRUE))) =>
                LET sub == submitSalary(Cur, A, v, TRUE) IN
                /\ lastCall'.error = NoError
                /\ sub.error = NoError
                /\ salaries' = sub.st.salaries
                /\ hasSalary' = sub.st.hasSalary
                /\ acl' = sub.st.acl
                /\ comparisonResults' = sub.st.comparisonResults
                /\ comparisonPerformed' = sub.st.comparisonPerformed
                /\ sub.st.logs = <<SalarySubmitted(A)>>
                /\ lastCall'.logs = <<SalaryUpdated(A)>>]_vars

C14_Witness ==
    /\ lastCall.call = UpdateCall("a", 1, TRUE)
    /\ lastCall.error = ErrUpdateFirst
    /\ ~hasSalary["a"]
    /\ hasSalary["b"]

(***************************************************************************)
(* C15  getMySalary                                                        *)
(***************************************************************************)
\* an input handle of A has been granted to A: A has submitted successfully
HasSubmitted(A) == \E v \in SalaryInputs : <<FHE_fromExternal(A, v), A>> \in acl

\* C15: getMySalary by A fails with the missing-salary error exactly when A
\* holds no salary, and A holds a salary in every state after a successful
\* submitSalary by A.
C15_GetMySalary ==
    [][\A A \in Users :
          /\ Sent(GetMySalaryCall(A)) =>
                lastCall'.error = IF hasSalary[A] THEN NoError ELSE ErrNoSalary
          /\ HasSubmitted(A) => hasSalary[A]
          /\ \A v \in SalaryInputs :
                Sent(SubmitCall(A, v, TRUE)) => (HasSubmitted(A))' /\ hasSalary'[A]]_vars

C15_Witness ==
    /\ lastCall.call = GetMySalaryCall("a")
    /\ lastCall.error = ErrNoSalary
    /\ ~hasSalary["a"]
    /\ hasSalary["b"]

(***************************************************************************)
(* C16  batch size checks                                                  *)
(***************************************************************************)
\* the step is batchCompareSalaries with an empty array or with more than
\* MAX_BATCH_SIZE entries; the error the size checks give for it
C16_SizeError(otherUsers) ==
    IF Len(otherUsers) = 0 THEN ErrBatchEmpty ELSE ErrBatchTooMany

C16_BadSize ==
    /\ SentOp("batchCompareSalaries")
    /\ (Len(lastCall'.call.otherUsers) = 0
        \/ Len(lastCall'.call.otherUsers) > MAX_BATCH_SIZE)

\* C16 as stated: for every caller and in every state an empty array fails
\* with the empty error and an array of more than 10 entries with the size
\* error, and no record is created.
C16_SizeChecksForEveryCaller ==
    [][C16_BadSize =>
          /\ lastCall'.error = C16_SizeError(lastCall'.call.otherUsers)
          /\ NothingWritten]_vars

\* C16 amended: the same for every caller that holds a salary.
C16_SizeChecksForCallerWithSalary ==
    [][(C16_BadSize /\ hasSalary[lastCall'.call.sender]) =>
          /\ lastCall'.error = C16_SizeError(lastCall'.call.otherUsers)
          /\ lastCall'.logs = <<>>
          /\ NothingWritten]_vars

C16_Witness ==
    /\ lastCall.call = BatchCall("a", <<>>)
    /\ lastCall.error = ErrBatchEmpty
    /\ hasSalary["a"]

(***************************************************************************)
(* C17  the batch size boundary                                            *)
(***************************************************************************)
\* the step is batchCompareSalaries by a sender with a salary on distinct
\* targets that all hold salaries and differ from the sender
C17_ValidTargets ==
    /\ SentOp("batchCompareSalaries")
    /\ LET A == lastCall'.call.sender
           os == lastCall'.call.otherUsers
       IN  /\ hasSalary[A]
           /\ \A i \in 1..Len(os) : os[i] # A /\ hasSalary[os[i]]
           /\ \A i \in 1..Len(os), j \in 1..Len(os) : os[i] = os[j] => i = j

\* C17: such a batch of exactly 10 targets succeeds and leaves a record for
\* each of the 10 ordered pairs; with 11 targets it fails with the size
\* error.
C17_BatchSizeBoundary ==
    [][C17_ValidTargets =>
          LET A == lastCall'.call.sender
              os == lastCall'.call.otherUsers
          IN  /\ Len(os) = MAX_BATCH_SIZE =>
                    /\ lastCall'.error = NoError
                    /\ \A i \in 1..Len(os) : comparisonPerformed'[A][os[i]]
              /\ Len(os) = MAX_BATCH_SIZE + 1 =>
                    /\ lastCall'.error = ErrBatchTooMany
                    /\ NothingWritten]_vars

\* ten records written by one batch of ten
C17_Witness ==
    /\ lastCall.call = BatchCall("a", FirstOthers("a", 10))
    /\ lastCall.error = NoError
    /\ Cardinality({u \in Users12 : comparisonPerformed["a"][u]}) = 10
    /\ Len(lastCall.logs) = 10

\* eleven valid targets refused
C17_WitnessEleven ==
    /\ lastCall.call = BatchCall("a", FirstOthers("a", 11))
    /\ lastCall.error = ErrBatchTooMany
    /\ \A u \in Users12 : hasSalary[u]

(***************************************************************************)
(* C18  per-entry checks of a batch                                        *)
(***************************************************************************)
\* entry i of the array is the sender itself or an account without a salary
C18_BadEntry(sender, otherUsers, i) ==
    otherUsers[i] = sender \/ ~hasSalary[otherUsers[i]]

\* C18: in a batch by a sender with a salary and an array of 1..10 entries,
\* the first entry, in input order, that is the sender or holds no salary
\* fails the whole call: with the self-comparison error when it is the
\* sender, with the missing-salary error otherwise; nothing is written.
C18_EntryChecksInOrder ==
    [][LET A == lastCall'.call.sender
           os == lastCall'.call.otherUsers
       IN  (/\ SentOp("batchCompareSalaries")
            /\ hasSalary[A]
            /\ Len(os) \in 1..MAX_BATCH_SIZE
            /\ \E i \in 1..Len(os) : C18_BadEntry(A, os, i)) =>
               LET k == CHOOSE i \in 1..Len(os) :
                            /\ C18_BadEntry(A, os, i)
                            /\ \A j \in 1..(i - 1) : ~C18_BadEntry(A, os, j)
               IN  /\ lastCall'.error =
                        IF os[k] = A THEN ErrBatchSelf ELSE ErrBatchOtherNoSalary
                   /\ lastCall'.logs = <<>>
                   /\ NothingWritten]_vars

\* the entry b was processed before the entry a failed the call of a, and
\* its record is gone
C18_Witness ==
    /\ lastCall.call = BatchCall("a", <<"b", "a">>)
    /\ lastCall.error = ErrBatchSelf
    /\ hasSalary["a"] /\ hasSalary["b"]
    /\ ~comparisonPerformed["a"]["b"]

(***************************************************************************)
(* C19  a batch of one is a comparison                                     *)
(***************************************************************************)
\* C19: for A with a salary and one valid target B with no record (A,B),
\* batchCompareSalaries([B]) and compareSalaries(B) from the same state end
\* in the same state: same record and result handle for (A,B), same grants
\* to A, B and the contract on it, same SalaryCompared(A, B) event.
C19_BatchOfOneIsCompare ==
    [][\A A \in Users, B \in Users :
          (/\ A # B /\ hasSalary[A] /\ hasSalary[B]
           /\ ~comparisonPerformed[A][B]) =>
              /\ Sent(CompareCall(A, B)) =>
                    /\ lastCall'.error = NoError
                    /\ PostIs(batchCompareSalaries(Cur, A, <<B>>))
              /\ Sent(BatchCall(A, <<B>>)) =>
                    /\ lastCall'.error = NoError
                    /\ PostIs(compareSalaries(Cur, A, B))
                    /\ lastCall'.logs = <<SalaryCompared(A, B)>>
                    /\ {<<comparisonResults'[A][B], g>> : g \in {A, B, This}}
                           \subseteq acl']_vars

C19_Witness ==
    /\ lastCall.call = BatchCall("a", <<"b">>)
    /\ lastCall.error = NoError
    /\ lastCall.logs = <<SalaryCompared("a", "b")>>
    /\ comparisonPerformed["a"]["b"]
    /\ <<comparisonResults["a"]["b"], "b">> \in acl

(***************************************************************************)
(* C20  minimal grants                                                     *)
(***************************************************************************)
\* C20: the handle stored for each account P with a salary is granted to P
\* and to the contract, and the result handle of each comparison record
\* (A,B) is granted to A, B and the contract.
C20_MinimalGrants ==
    /\ \A P \in Users :
          hasSalary[P] =>
              {<<salaries[P], P>>, <<salaries[P], This>>} \subseteq acl
    /\ \A A \in Users, B \in Users :
          comparisonPerformed[A][B] =>
              {<<comparisonResults[A][B], g>> : g \in {A, B, This}} \subseteq acl

\* a record (a, b) whose requester has since replaced its salary
C20_Witness ==
    /\ comparisonPerformed["a"]["b"]
    /\ hasSalary["a"] /\ hasSalary["b"]
    /\ comparisonResults["a"]["b"] # FHE_gt(salaries["a"], salaries["b"])
    /\ lastCall.call.op = "submitSalary" /\ lastCall.error = NoError

(***************************************************************************)
(* C21  grants reach the right parties only                                *)
(***************************************************************************)
\* the accounts a handle may be granted to: a salary handle to the account
\* that submitted it, a comparison handle to the two accounts whose salary
\* handles are its operands, and either to the contract
Parties(handle) ==
    IF handle.kind = "euint32" THEN {handle.lo, This}
    ELSE IF handle.kind = "ebool" THEN {handle.lo, handle.ro, This}
    ELSE {}

\* C21: in every reachable state a salary handle is granted to nobody but
\* its owner and the contract, and the result handle of record (A, B) to
\* nobody but A, B and the contract.
C21_GrantsToPartiesOnly ==
    /\ \A g \in acl : g[2] \in Parties(g[1])
    /\ \A P \in Users :
          hasSalary[P] =>
              \A Q \in Users \ {P} : <<salaries[P], Q>> \notin acl
    /\ \A A \in Users, B \in Users :
          comparisonPerformed[A][B] =>
              \A Q \in Users \ {A, B} : <<comparisonResults[A][B], Q>> \notin acl

\* c has a salary and a comparison of its own with a, and holds no grant on
\* the record (a, b) or on the salaries of a and b
C21_Witness ==
    /\ comparisonPerformed["a"]["b"] /\ comparisonPerformed["c"]["a"]
    /\ <<comparisonResults["c"]["a"], "c">> \in acl
    /\ <<comparisonResults["a"]["b"], "c">> \notin acl
    /\ <<salaries["a"], "c">> \notin acl /\ <<salaries["b"], "c">> \notin acl

(***************************************************************************)
(* C22  grants are never revoked                                           *)
(***************************************************************************)
\* C22: no step removes a pair from the grants; after updateSalary the
\* grants on the sender's previous handle are still there, and both
\* participants of a comparison keep their grant on its result.
C22_GrantsAdditive ==
    [][/\ acl \subseteq acl'
       /\ \A A \in Users, v \in SalaryInputs :
             (hasSalary[A] /\ Sent(UpdateCall(A, v, TRUE))) =>
                 /\ lastCall'.error = NoError
                 /\ {<<salaries[A], A>>, <<salaries[A], This>>} \subseteq acl'
       /\ \A A \in Users, B \in Users :
             comparisonPerformed[A][B] =>
                 {<<comparisonResults'[A][B], A>>,
                  <<comparisonResults'[A][B], B>>} \subseteq acl']_vars

\* a replaced its salary 1 by 2 after the comparison (a, b): the grants on
\* the old handle and on the result are still held
C22_Witness ==
    /\ lastCall.call = UpdateCall("a", 2, TRUE)
    /\ lastCall.error = NoError
    /\ salaries["a"] = FHE_fromExternal("a", 2)
    /\ {<<FHE_fromExternal("a", 1), "a">>, <<FHE_fromExternal("a", 1), This>>} \subseteq acl
    /\ comparisonPerformed["a"]["b"]
    /\ comparisonResults["a"]["b"].lv = 1
    /\ <<comparisonResults["a"]["b"], "b">> \in acl

(***************************************************************************)
(* C23  granting the same pair again                                       *)
(***************************************************************************)
\* the pairs submitSalary grants for ciphertext v of account A
SubmitGrants(A, v) == {<<FHE_fromExternal(A, v), A>>, <<FHE_fromExternal(A, v), This>>}

SingleOps ==
    {"submitSalary", "updateSalary", "compareSalaries", "getComparisonResult",
     "getMySalary"}

C25_ResultIsSenderGreater ==
    [][\A A \in Users, B \in Users :
          (~comparisonPerformed[A][B] /\ comparisonPerformed'[A][B]) =>
              /\ lastCall'.call.op \in {"compareSalaries", "batchCompareSalaries"}
              /\ lastCall'.call.sender = A
              /\ comparisonResults'[A][B] = FHE_gt(salaries[A], salaries[B])
              /\ comparisonResults'[A][B] # FHE_gt(salaries[B], salaries[A])
              /\ FHE_decrypt(comparisonResults'[A][B]) =
                     (Cleartext(salaries[A]) > Cleartext(salaries[B]))
              /\ (Cleartext(salaries[A]) = Cleartext(salaries[B])) =>
                     ~FHE_decrypt(comparisonResults'[A][B])]_vars

\* a and b hold the equal salary 2, a having replaced its first salary 1,
\* and the record (a, b) just created decrypts to false
C25_Witness ==
    /\ lastCall.call = CompareCall("a", "b")
    /\ lastCall.error = NoError
    /\ <<FHE_fromExternal("a", 1), "a">> \in acl
    /\ Cleartext(salaries["a"]) = 2 /\ Cleartext(salaries["b"]) = 2
    /\ comparisonResults["a"]["b"] = FHE_gt(salaries["a"], salaries["b"])
    /\ ~FHE_decrypt(comparisonResults["a"]["b"])

(***************************************************************************)
(* C26  rejected input proofs                                              *)
(***************************************************************************)
\* C26: submitSalary with a proof the engine rejects fails with the
\* engine's error and leaves flag, handle and grants as they were;
\* updateSalary by a sender without a salary fails with the missing-salary
\* error whether or not the proof is valid.
C26_InvalidProof ==
    [][\A A \in Users, v \in SalaryInputs :
          /\ Sent(SubmitCall(A, v, FALSE)) =>
                /\ lastCall'.error = ErrInvalidProof
                /\ hasSalary'[A] = hasSalary[A]
                /\ salaries'[A] = salaries[A]
                /\ acl' = acl
                /\ NothingWritten
          /\ \A proofOk \in BOOLEAN :
                (~hasSalary[A] /\ Sent(UpdateCall(A, v, proofOk))) =>
                    /\ lastCall'.error = ErrUpdateFirst
                    /\ NothingWritten]_vars

\* a, without a salary, called updateSalary with an invalid proof and got
\* the missing-salary error
C26_Witness ==
    /\ lastCall.call = UpdateCall("a", 1, FALSE)
    /\ lastCall.error = ErrUpdateFirst
    /\ ~hasSalary["a"]
    /\ hasSalary["b"]

(***************************************************************************)
(* C27  hasComparison                                                      *)
(***************************************************************************)
HasComparisonCall(sender, user1, user2) ==
    Call("hasComparison", sender, NoUser, <<user1, user2>>, 0, TRUE)

\* C27: hasComparison(U1, U2) succeeds for any sender, changes nothing, and
\* returns true exactly when a committed compareSalaries or
\* batchCompareSalaries step was performed for the ordered pair (U1, U2).
C27_HasComparison ==
    [][\A V \in Users, U1 \in Users, U2 \in Users :
          Sent(HasComparisonCall(V, U1, U2)) =>
              /\ lastCall'.error = NoError
              /\ lastCall'.flag = comparisonPerformed[U1][U2]
              /\ lastCall'.flag = (comparedLog[U1][U2] > 0)
              /\ NothingWritten]_vars

\* c, no participant, is told that (a, b) was compared; (b, a) was not
C27_Witness ==
    /\ lastCall.call = HasComparisonCall("c", "a", "b")
    /\ lastCall.error = NoError
    /\ lastCall.flag
    /\ ~comparisonPerformed["b"]["a"]
    /\ ~hasSalary["c"]

(***************************************************************************)
(* C28  getContractInfo                                                    *)
(***************************************************************************)
GetContractInfoCall(sender) == Call("getContractInfo", sender, NoUser, <<>>, 0, TRUE)

\* the totals the function is documented to return
TotalUsers == Cardinality({u \in Users : hasSalary[u]})
TotalComparisons ==
    Cardinality({p \in Users \X Users : comparisonPerformed[p[1]][p[2]]})

\* C28: getContractInfo returns totalUsers equal to the number of accounts
\* that have submitted a salary and totalComparisons equal to the number of
\* comparisons performed.
C28_InfoReturnsTotals ==
    [][\A V \in Users :
          Sent(GetContractInfoCall(V)) =>
              /\ lastCall'.error = NoError
              /\ lastCall'.info = <<TotalUsers, TotalComparisons>>]_vars

(***************************************************************************)
(* C29  a record is created once                                           *)
(***************************************************************************)
\* the SalaryCompared(A, B) events emitted by the step's transaction
ComparedInCall(A, B) ==
    Cardinality({k \in 1..Len(lastCall'.logs) :
                     lastCall'.logs[k] = SalaryCompared(A, B)})

\* C29: in any sequence of compareSalaries, batchCompareSalaries, submit
\* and update calls, the record (A, B) is created by one step only: once it
\* exists no step writes it again, compareSalaries(B) by A fails as already
\* performed, and a batch of A skips its entries for B.
C29_RecordedOnce ==
    [][\A A \in Users, B \in Users :
          /\ ~comparisonPerformed[A][B] =>
                /\ ComparedInCall(A, B) <= 1
                /\ comparisonPerformed'[A][B] <=> ComparedInCall(A, B) = 1
          /\ comparisonPerformed[A][B] =>
                /\ comparisonPerformed'[A][B]
                /\ comparisonResults'[A][B] = comparisonResults[A][B]
                /\ ComparedInCall(A, B) = 0
                /\ Sent(CompareCall(A, B)) => lastCall'.error = ErrAlready
                /\ \A us \in BatchInputs(Users, MaxBatchLen) :
                      (Sent(BatchCall(A, us)) /\ lastCall'.error = NoError) =>
                          /\ comparisonResults'[A] =
                                 BatchLoop(Cur, A, SelectSeq(us, LAMBDA u : u # B), 1)
                                     .st.comparisonResults[A]
                          /\ acl' =
                                 BatchLoop(Cur, A, SelectSeq(us, LAMBDA u : u # B), 1)
                                     .st.acl]_vars

\* after the record (a, b), a replaced its salary and sent the batch [b]:
\* the entry was skipped and the record is the one of the first step
C29_Witness ==
    /\ lastCall.call = BatchCall("a", <<"b">>)
    /\ lastCall.error = NoError
    /\ lastCall.logs = <<>>
    /\ comparisonPerformed["a"]["b"]
    /\ comparisonResults["a"]["b"] # FHE_gt(salaries["a"], salaries["b"])
    /\ comparedLog["a"]["b"] = 1

(***************************************************************************)
(* C30  one SalaryCompared event per record                                *)
(***************************************************************************)
\* C30: the number of SalaryCompared(A, B) events emitted so far is 1 if
\* the record (A, B) exists and 0 if it does not.
C30_OneEventPerRecord ==
    \A A \in Users, B \in Users :
        comparedLog[A][B] = IF comparisonPerformed[A][B] THEN 1 ELSE 0

\* the batch [b, b] of a created the record (a, b) at its first entry and
\* skipped the second: one event; no event for the pairs without a record
C30_Witness ==
    /\ lastCall.call = BatchCall("a", <<"b", "b">>)
    /\ lastCall.error = NoError
    /\ lastCall.logs = <<SalaryCompared("a", "b")>>
    /\ comparedLog["a"]["b"] = 1
    /\ comparedLog["b"]["a"] = 0 /\ ~comparisonPerformed["b"]["a"]

(***************************************************************************)
(* C31  the batch checks its sender first                                  *)
(***************************************************************************)
\* C31: batchCompareSalaries by a sender without a salary fails with the
\* sender's missing-salary error for every array, the empty one and one
\* longer than MAX_BATCH_SIZE included, and creates no record.
C31_SenderCheckedFirst ==
    [][\A A \in Users :
          (~hasSalary[A] /\ SentOp("batchCompareSalaries")
           /\ lastCall'.call.sender = A) =>
              /\ lastCall'.error = ErrNoSalary
              /\ lastCall'.logs = <<>>
              /\ NothingWritten
              /\ \A B \in Users : ~comparisonPerformed'[A][B]]_vars

\* a, without a salary, sent an array of 11 entries naming b, who has one
C31_Witness ==
    /\ lastCall.call.op = "batchCompareSalaries"
    /\ lastCall.call.sender = "a"
    /\ Len(lastCall.call.otherUsers) = MAX_BATCH_SIZE + 1
    /\ lastCall.call.otherUsers[1] = "b"
    /\ lastCall.error = ErrNoSalary
    /\ ~hasSalary["a"] /\ hasSalary["b"]

(***************************************************************************)
(* C32  the batch runs in input order                                      *)
(***************************************************************************)
\* the entries among the first k of otherUsers that the loop does not skip:
\* no record (A, entry) exists and the entry did not occur earlier
RECURSIVE NonSkipped(_, _, _)
NonSkipped(A, otherUsers, k) ==
    IF k = 0 THEN <<>>
    ELSE IF \/ comparisonPerformed[A][otherUsers[k]]
            \/ \E j \in 1..(k - 1) : otherUsers[j] = otherUsers[k]
         THEN NonSkipped(A, otherUsers, k - 1)
         ELSE Append(NonSkipped(A, otherUsers, k - 1), otherUsers[k])

\* the indices of the entries that fail the batch
FailingEntries(A, otherUsers) ==
    {k \in 1..Len(otherUsers) : ~hasSalary[otherUsers[k]] \/ otherUsers[k] = A}

\* C32: a batch that completes emits its SalaryCompared events in the order
\* of its non-skipped entries; a batch with a failing entry fails with the
\* error of the first such entry k whatever follows it, and records nothing.
C32_InputOrder ==
    [][\A A \in Users4 :
          (/\ hasSalary[A] /\ SentOp("batchCompareSalaries")
           /\ lastCall'.call.sender = A
           /\ Len(lastCall'.call.otherUsers) \in 1..MAX_BATCH_SIZE) =>
              LET otherUsers == lastCall'.call.otherUsers
                  failing == FailingEntries(A, otherUsers)
                  done == NonSkipped(A, otherUsers, Len(otherUsers))
              IN  IF failing = {}
                  THEN /\ lastCall'.error = NoError
                       /\ lastCall'.logs =
                              [n \in 1..Len(done) |-> SalaryCompared(A, done[n])]
                  ELSE LET k == CHOOSE i \in failing : \A j \in failing : i <= j
                       IN  /\ lastCall'.error =
                                  IF ~hasSalary[otherUsers[k]]
                                  THEN ErrBatchOtherNoSalary ELSE ErrBatchSelf
                           /\ lastCall'.logs = <<>>
                           /\ NothingWritten]_vars

\* the batch [c, c, b] of a completed: events for (a, c) and (a, b) in that
\* order, the repeated c skipped
C32_Witness ==
    /\ lastCall.call = BatchCall("a", <<"c", "c", "b">>)
    /\ lastCall.error = NoError
    /\ lastCall.logs = <<SalaryCompared("a", "c"), SalaryCompared("a", "b")>>
    /\ ~hasSalary["d"]

(***************************************************************************)
(* C33  what submitSalary, updateSalary and the queries leave alone        *)
(***************************************************************************)
\* C33: submitSalary and updateSalary by A change only A's handle, A's
\* flag and the grants on the new handle; getMySalary, getComparisonResult
\* and hasComparison change nothing.
C33_Frame ==
    [][/\ \A A \in Users, v \in SalaryInputs, proofOk \in BOOLEAN :
             (Sent(SubmitCall(A, v, proofOk)) \/ Sent(UpdateCall(A, v, proofOk))) =>
                 /\ \A P \in Users \ {A} :
                       salaries'[P] = salaries[P] /\ hasSalary'[P] = hasSalary[P]
                 /\ comparisonResults' = comparisonResults
                 /\ comparisonPerformed' = comparisonPerformed
                 /\ comparedLog' = comparedLog
                 /\ acl \subseteq acl'
                 /\ acl' \ acl \subseteq SubmitGrants(A, v)
                 /\ lastCall'.error = NoError =>
                       salaries'[A] = FHE_fromExternal(A, v) /\ hasSalary'[A]
       /\ (SentOp("getMySalary") \/ SentOp("getComparisonResult")
           \/ SentOp("hasComparison")) => NothingWritten]_vars

\* b submitted a new salary after the comparison (a, b): the record still
\* holds the result over b's old handle, and a's salary is as it was
C33_Witness ==
    /\ lastCall.call = SubmitCall("b", 2, TRUE)
    /\ lastCall.error = NoError
    /\ salaries["b"] = FHE_fromExternal("b", 2)
    /\ salaries["a"] = FHE_fromExternal("a", 1)
    /\ comparisonPerformed["a"]["b"]
    /\ comparisonResults["a"]["b"] = FHE_gt(FHE_fromExternal("a", 1), FHE_fromExternal("b", 1))

(***************************************************************************)
(* Specification of the salary form                                        *)
(***************************************************************************)
InitForm == InitOver(Users)

NextForm ==
    \/ \E str \in InputStrings : TypeSalary(str)
    \/ \E b \in BOOLEAN : SetCanSubmit(b)
    \/ HandleSalarySubmit
    \/ \E r \in 1..Len(ui.runs) : SubmitResolves(r)
    \/ \E r \in 1..Len(ui.runs) : SubmitRejects(r)
    \/ \E r \in 1..Len(ui.runs) : RetryTimerFires(r)

SpecForm == InitForm /\ [][NextForm]_vars

(***************************************************************************)
(* C34  automatic retries of the salary form                               *)
(***************************************************************************)
\* C34: a run whose submitSalary keeps failing makes at most 3 retries,
\* that is at most 4 submitSalary calls, and a call that succeeds sets
\* retryCount to 0.
C34_RetriesBounded ==
    /\ [](\A r \in 1..Len(ui.runs) : ui.runs[r].calls <= 4)
    /\ [][\A r \in 1..Len(ui.runs) :
             (ui.runs[r].pc = "call" /\ ui'.runs[r].pc = "done") =>
                 ui'.retryCount = 0]_vars

(***************************************************************************)
(* Specification of the dashboard; the contract is in its deployed state   *)
(***************************************************************************)
\* the dashboard is mounted with any props
InitDash ==
    /\ Deployed(Users)
    /\ ui = FormMounted
    /\ \E provider \in BOOLEAN, chainId \in ChainIds, isConnected \in BOOLEAN,
          throws \in BOOLEAN :
          dash = loadStats(DashboardRendered(provider, chainId, isConnected), throws)

NextDash ==
    \/ \E provider \in BOOLEAN, chainId \in ChainIds, isConnected \in BOOLEAN,
          throws \in BOOLEAN :
          PropsChange(provider, chainId, isConnected, throws)
    \/ \E l \in 1..Len(dash.loads) : ContractInfoResolves(l)
    \/ \E l \in 1..Len(dash.loads) : ContractInfoRejects(l)
    \/ MockTimerFires

SpecDash == InitDash /\ [][NextDash]_vars

\* every pending getContractInfo settles and every timer that was set fires
SpecDashFair ==
    /\ SpecDash
    /\ \A l \in 1..(MaxLoads + 1) :
          WF_vars(l <= Len(dash.loads)
                  /\ (ContractInfoResolves(l) \/ ContractInfoRejects(l)))
    /\ WF_vars(MockTimerFires)

\* load l stores statistics in this step
Finishes(l) ==
    /\ l <= Len(dash.loads)
    /\ dash.loads[l].pc # "done"
    /\ dash'.loads[l].pc = "done"

(***************************************************************************)
(* C35  loads of the dashboard and their order                             *)
(***************************************************************************)
\* C35: a load started earlier does not overwrite the statistics stored by
\* a load started later; in particular the mock data of an earlier load
\* never replaces statistics derived from getContractInfo by a later load.
C35_NoStaleOverwrite ==
    [][\A l \in 1..Len(dash.loads) :
          (Finishes(l)
           /\ \E m \in (l + 1)..Len(dash.loads) : dash.loads[m].pc = "done") =>
              /\ dash'.stats = dash.stats
              /\ (\E m \in (l + 1)..Len(dash.loads) :
                     dash.loads[m].pc = "done" /\ dash.loads[m].path = "contract") =>
                    dash'.stats # MockStats]_vars

(***************************************************************************)
(* C36  every load ends                                                    *)
(***************************************************************************)
AllLoadsDone == \A l \in 1..Len(dash.loads) : dash.loads[l].pc = "done"

\* load l was started / has ended
LoadStarted(l) == l <= Len(dash.loads)
LoadDone(l) == IF l <= Len(dash.loads) THEN dash.loads[l].pc = "done" ELSE FALSE

====
